---------------------------- MODULE Spec2Model ----------------------------
(***************************************************************************)
(* Model of the marlinflow trainer: the training loop of trainer/main.py   *)
(* (train, WeightClipper, the learning-rate schedule selection of main)    *)
(* and the factorised feature transformers of trainer/model.py             *)
(* (HalfKPNet.forward, HalfKANet.forward).                                 *)
(*                                                                         *)
(* Numbers.  Floating-point quantities are modelled in fixed point:        *)
(*   - weights in hundredths (1.98 is 198), a value being a record         *)
(*     [nan, v] so that IEEE NaN is a value of its own;                    *)
(*   - probabilities (sigmoid, wdl label, prediction) in thousandths;      *)
(*   - the learning rate in integer units, a decay factor as a ratio       *)
(*     [num, den].                                                         *)
(***************************************************************************)
EXTENDS Integers, Sequences, FiniteSets, TLC

VARIABLES
    args,           \* the parsed command line of main(), as passed to train()
    pc,             \* position of train(): loop, epoch_end, step, log, done, aborted
    model,          \* named parameters of the network: dotted name -> value
    lr,             \* the optimizer's current learning rate
    scheduler,      \* the learning-rate scheduler object
    new_epoch,      \* first component of the last read_batch result
    batch,          \* second component of the last read_batch result
    epoch, iterations, fens, running_loss,
    iter_since_log, loss_since_log,
    loss,           \* the local `loss` of train(), a ratio [num, den]
    checkpoints,    \* files nn/{train_id}_{epoch}: epoch -> state_dict
    export_json,    \* file nn/{train_id}.json: {} when absent, else {param_map}
    train_log,      \* the log sink: samples received by TrainLog.update, and the last one
    fold,           \* factoriser fold check: inputs and the two evaluations
    blend           \* target blending check: inputs and the computed target

vars == <<args, pc, model, lr, scheduler, new_epoch, batch, epoch, iterations,
          fens, running_loss, iter_since_log, loss_since_log, loss,
          checkpoints, export_json, train_log, fold, blend>>

trainVars == <<args, pc, model, lr, scheduler, new_epoch, batch, epoch,
               iterations, fens, running_loss, iter_since_log, loss_since_log,
               loss, checkpoints, export_json, train_log>>

-----------------------------------------------------------------------------
(* Bounds of the model *)

\* largest --epochs value explored
MaxEpochs == 3
\* the Batch Source signals a new epoch at the latest after this many
\* batches of one epoch
MaxBatchesPerEpoch == 3

-----------------------------------------------------------------------------
(* Values *)

Min(a, b) == IF a <= b THEN a ELSE b
Max(a, b) == IF a >= b THEN a ELSE b
Abs(a) == IF a >= 0 THEN a ELSE 0 - a

RECURSIVE Pow(_, _)
Pow(b, n) == IF n = 0 THEN 1 ELSE b * Pow(b, n - 1)

Num(v) == [nan |-> FALSE, v |-> v]
NaN == [nan |-> TRUE, v |-> 0]

LOG_ITERS == 10000000

CLIP_MIN == -198
CLIP_MAX == 198

\* torch.Tensor.clamp on one entry: NaN propagates, everything else is
\* limited to [lo, hi]
Clamp(x, lo, hi) == IF x.nan THEN x ELSE Num(Min(Max(x.v, lo), hi))

InRange(x) == ~x.nan /\ CLIP_MIN <= x.v /\ x.v <= CLIP_MAX

-----------------------------------------------------------------------------
(* The network of main(): SquaredPerspectiveNet, two linear layers *)

ParamNames == {"perspective.weight", "perspective.bias", "out.weight", "out.bias"}

\* hasattr(module, "weight"): the parameters a module exposes as .weight
IsWeight(n) == n \in {"perspective.weight", "out.weight"}

InitModel == [n \in ParamNames |-> Num(0)]

\* WeightClipper.__call__ on one parameter of a visited module
ClipParam(n, x) == IF IsWeight(n) THEN Clamp(x, CLIP_MIN, CLIP_MAX) ELSE x

\* model.apply(clipper): the clipper visits every module
WeightClipper(m) == [n \in DOMAIN m |-> ClipParam(n, m[n])]

\* what optimizer.step() may leave in the parameters: values beyond the
\* clip range on both sides, values inside it, and NaN (a diverged loss)
OptimizerOutcomes ==
    { [n \in ParamNames |->
          CASE n = "perspective.weight" -> Num(250)
            [] n = "out.weight" -> Num(-250)
            [] OTHER -> Num(300)],
      [n \in ParamNames |->
          CASE n = "perspective.weight" -> NaN
            [] n = "out.weight" -> Num(50)
            [] OTHER -> Num(0)] }

-----------------------------------------------------------------------------
(* Target blending, train() line 94 *)

\* torch.sigmoid(cp / scale) in thousandths, by the rational approximation
\* 1/2 + x / (2 (1 + |x|)) with x = cp / scale, scale > 0
Sigmoid(cp, scale) == 500 + (500 * cp) \div (scale + Abs(cp))

\* the blend with the two weights exchanged
BlendSwapped(cp, scale, wdl, label) == Sigmoid(cp, scale) * wdl + label * (1000 - wdl)

\* expected = sigmoid(cp / scale) * (1 - wdl) + batch.wdl * wdl, in
\* millionths: wdl and label are in thousandths
Blend(cp, scale, wdl, label) == Sigmoid(cp, scale) * (1000 - wdl) + label * wdl

\* torch.mean((prediction - expected) ** 2) for a one-example batch;
\* prediction in thousandths, expected in millionths
MseLoss(prediction, expected) ==
    LET d == (prediction * 1000 - expected) \div 1000 IN d * d

-----------------------------------------------------------------------------
(* Learning-rate schedule, main() lines 168-179 *)

Ratio(n, d) == [num |-> n, den |-> d]

GammaCandidates == {Ratio(1, 1), Ratio(1, 2), Ratio(1, 10)}

\* gamma = (lr_end / lr) ** (1 / epochs): the ratio g with lr * g^epochs = lr_end
Gamma(l, l_end, n) ==
    CHOOSE g \in GammaCandidates : l * Pow(g.num, n) = l_end * Pow(g.den, n)

MakeScheduler(a) ==
    IF a.lr_end # {}
    THEN [kind |-> "ExponentialLR", step_size |-> 1, last_epoch |-> 0,
          gamma |-> Gamma(a.lr, CHOOSE e \in a.lr_end : TRUE, a.epochs)]
    ELSE IF a.lr_drop # {}
    THEN [kind |-> "StepLR", step_size |-> CHOOSE d \in a.lr_drop : TRUE,
          last_epoch |-> 0, gamma |-> Ratio(1, 10)]
    ELSE [kind |-> "ExponentialLR", step_size |-> 1, last_epoch |-> 0,
          gamma |-> Ratio(1, 1)]

\* scheduler.step(): advance last_epoch; ExponentialLR decays at every
\* step, StepLR at every step_size-th step
SchedulerStep(s) == [s EXCEPT !.last_epoch = @ + 1]

NextLr(s, l) ==
    IF s.kind = "ExponentialLR" \/ (s.last_epoch + 1) % s.step_size = 0
    THEN (l * s.gamma.num) \div s.gamma.den
    ELSE l

-----------------------------------------------------------------------------
(* Command lines *)

LearningRates == {1000000}
BatchSizes == {5000000, 6000000}
SaveEpochs == {1, 2}
LrDrops == {{}, {1}, {2}}
Scales == {400}
Predictions == {500, 700}

\* --lr-end values: none, or the rate reached by halving once per epoch
LrEnds(l, n) == {{}} \cup (IF n >= 1 THEN {{l \div Pow(2, n)}} ELSE {})

ArgsSet ==
    { [lr |-> l, lr_end |-> le, lr_drop |-> ld, epochs |-> n, batch_size |-> bs,
       wdl |-> 0, scale |-> sc, save_epochs |-> se] :
        l \in LearningRates, ld \in LrDrops, n \in 0..MaxEpochs,
        bs \in BatchSizes, sc \in Scales, se \in SaveEpochs,
        le \in UNION {LrEnds(l2, n2) : l2 \in LearningRates, n2 \in 0..MaxEpochs} }

\* main() evaluates 1 / epochs when --lr-end is given, so train() is only
\* entered with epochs >= 1 in that case; lr_end takes precedence over lr_drop
ValidArgs(a) ==
    /\ a.lr_end \in LrEnds(a.lr, a.epochs)
    /\ a.lr_end # {} => a.lr_drop = {}

\* what read_batch may return as its batch: one labelled example stands
\* for the batch, of the configured size
Batches(a) == {[size |-> a.batch_size, cp |-> 0, wdl |-> 1000]}

NoBatch == [size |-> 0, cp |-> 0, wdl |-> 0]
NoLoss == Ratio(0, 1)
Idle == [phase |-> "idle"]

-----------------------------------------------------------------------------
(* train() *)

Init ==
    /\ args \in {a \in ArgsSet : ValidArgs(a)}
    /\ pc = "loop"
    /\ model = InitModel
    /\ lr = args.lr
    /\ scheduler = MakeScheduler(args)
    /\ new_epoch = FALSE
    /\ batch = NoBatch
    /\ epoch = 0
    /\ iterations = 0
    /\ fens = 0
    /\ running_loss = 0
    /\ iter_since_log = 0
    /\ loss_since_log = 0
    /\ loss = NoLoss
    /\ checkpoints = << >>
    /\ export_json = {}
    /\ train_log = [count |-> 0, last |-> NoLoss]
    /\ fold = Idle
    /\ blend = Idle

\* line 65, condition false: the loop ends and train() returns
LoopExit ==
    /\ pc = "loop"
    /\ ~(epoch < args.epochs)
    /\ pc' = "done"
    /\ UNCHANGED <<args, model, lr, scheduler, new_epoch, batch, epoch,
                   iterations, fens, running_loss, iter_since_log,
                   loss_since_log, loss, checkpoints, export_json, train_log,
                   fold, blend>>

\* lines 65-67: dataloader.read_batch(DEVICE)
ReadBatch ==
    /\ pc = "loop"
    /\ epoch < args.epochs
    /\ \E ne \in BOOLEAN, b \in Batches(args) :
          /\ iterations >= MaxBatchesPerEpoch => ne
          /\ new_epoch' = ne
          /\ batch' = b
          /\ pc' = IF ne THEN "epoch_end" ELSE "step"
    /\ UNCHANGED <<args, model, lr, scheduler, epoch, iterations, fens,
                   running_loss, iter_since_log, loss_since_log, loss,
                   checkpoints, export_json, train_log, fold, blend>>

\* lines 81-88: torch.save of the state_dict and the json export
SaveDue(e, save_epochs) == e % save_epochs = 0

\* lines 68-71 with iterations = 0: the epoch counter is incremented, then
\* running_loss.item() / iterations raises ZeroDivisionError
EpochEndAbort ==
    /\ pc = "epoch_end"
    /\ iterations = 0
    /\ epoch' = epoch + 1
    /\ pc' = "aborted"
    /\ UNCHANGED <<args, model, lr, scheduler, new_epoch, batch, iterations,
                   fens, running_loss, iter_since_log, loss_since_log, loss,
                   checkpoints, export_json, train_log, fold, blend>>

\* lines 68-89: the epoch-end actions
EpochEnd ==
    /\ pc = "epoch_end"
    /\ iterations # 0
    /\ epoch' = epoch + 1
    /\ running_loss' = 0
    /\ iterations' = 0
    /\ fens' = 0
    /\ IF SaveDue(epoch + 1, args.save_epochs)
       THEN /\ checkpoints' = [e \in DOMAIN checkpoints \cup {epoch + 1} |->
                                  IF e = epoch + 1 THEN model ELSE checkpoints[e]]
            /\ export_json' = {model}
       ELSE UNCHANGED <<checkpoints, export_json>>
    /\ lr' = NextLr(scheduler, lr)
    /\ scheduler' = SchedulerStep(scheduler)
    /\ pc' = "step"
    /\ UNCHANGED <<args, model, new_epoch, batch, iter_since_log,
                   loss_since_log, loss, train_log, fold, blend>>

\* lines 92-106: forward pass, target, loss, optimizer step, weight clip,
\* accumulation
TrainStep ==
    /\ pc = "step"
    /\ \E prediction \in Predictions, stepped \in OptimizerOutcomes :
          LET expected == Blend(batch.cp, args.scale, args.wdl, batch.wdl)
              l == MseLoss(prediction, expected)
          IN /\ model' = WeightClipper(stepped)
             /\ loss' = Ratio(l, 1)
             /\ running_loss' = running_loss + l
             /\ loss_since_log' = loss_since_log + l
    /\ iterations' = iterations + 1
    /\ iter_since_log' = iter_since_log + 1
    /\ fens' = fens + batch.size
    /\ pc' = "log"
    /\ UNCHANGED <<args, lr, scheduler, new_epoch, batch, epoch, checkpoints,
                   export_json, train_log, fold, blend>>

\* the report condition with the threshold itself included
ReportDueInclusive(n, size) == n * size >= LOG_ITERS

\* line 108
ReportDue(n, size) == n * size > LOG_ITERS

\* lines 108-119: the periodic report
Report ==
    /\ pc = "log"
    /\ IF ReportDue(iter_since_log, batch.size)
       THEN /\ loss' = Ratio(loss_since_log, iter_since_log)
            /\ train_log' = [count |-> train_log.count + 1, last |-> loss']
            /\ iter_since_log' = 0
            /\ loss_since_log' = 0
       ELSE UNCHANGED <<loss, train_log, iter_since_log, loss_since_log>>
    /\ pc' = "loop"
    /\ UNCHANGED <<args, model, lr, scheduler, new_epoch, batch, epoch,
                   iterations, fens, running_loss, checkpoints, export_json,
                   fold, blend>>

Next ==
    \/ LoopExit
    \/ ReadBatch
    \/ EpochEndAbort
    \/ EpochEnd
    \/ TrainStep
    \/ Report

Spec == Init /\ [][Next]_vars

-----------------------------------------------------------------------------
(* Target blending as a function of its inputs *)

Centipawns == {-800, -100, 0, 100, 800}
BlendScales == {100, 400}
WdlWeights == {0, 250, 500, 1000}
WdlLabels == {0, 500, 1000}

\* train() is not running while a single function is evaluated
TrainIdle ==
    /\ args = [lr |-> 0, lr_end |-> {}, lr_drop |-> {}, epochs |-> 0,
               batch_size |-> 0, wdl |-> 0, scale |-> 0, save_epochs |-> 0]
    /\ pc = "idle"
    /\ model = InitModel
    /\ lr = 0
    /\ scheduler = MakeScheduler(args)
    /\ new_epoch = FALSE
    /\ batch = NoBatch
    /\ epoch = 0
    /\ iterations = 0
    /\ fens = 0
    /\ running_loss = 0
    /\ iter_since_log = 0
    /\ loss_since_log = 0
    /\ loss = NoLoss
    /\ checkpoints = << >>
    /\ export_json = {}
    /\ train_log = [count |-> 0, last |-> NoLoss]

InitBlend ==
    /\ TrainIdle
    /\ fold = Idle
    /\ blend \in { [phase |-> "input", cp |-> c, scale |-> sc, wdl |-> w,
                    label |-> lb, target |-> 0] :
                     c \in Centipawns, sc \in BlendScales, w \in WdlWeights,
                     lb \in WdlLabels }

\* line 94 on one example
ComputeTarget ==
    /\ blend.phase = "input"
    /\ blend' = [blend EXCEPT
                   !.phase = "done",
                   !.target = Blend(blend.cp, blend.scale, blend.wdl, blend.label)]
    /\ UNCHANGED <<trainVars, fold>>

\* the next example: same configuration, other labels
NextExample ==
    /\ blend.phase = "done"
    /\ \E c \in Centipawns, lb \in WdlLabels :
          blend' = [blend EXCEPT !.phase = "input", !.cp = c, !.label = lb]
    /\ UNCHANGED <<trainVars, fold>>

NextBlend ==
    \/ ComputeTarget
    \/ NextExample

SpecBlend == InitBlend /\ [][NextBlend]_vars

-----------------------------------------------------------------------------
(* Factorised feature transformers: HalfKPNet and HalfKANet *)

HalfKP == [name |-> "HalfKPNet", input_dim |-> 40960, base_dim |-> 640]
HalfKA == [name |-> "HalfKANet", input_dim |-> 49152, base_dim |-> 768]
Variants == {HalfKP, HalfKA}

\* the king bucket kept and the base feature discarded
FactoriserIndexBucket(f, base_dim) == f \div base_dim

\* v_stm_indices[1][:] %= base_dim: the factoriser column of a feature
FactoriserIndex(f, base_dim) == f % base_dim

\* A torch.nn.Linear(dim, 1) is held as [dim, rows, bias]: rows maps the
\* features whose weight is not zero to that weight.
Weight(layer, f) == IF f \in DOMAIN layer.rows THEN layer.rows[f] ELSE 0

\* the sum of f[x] over x in S
RECURSIVE SumOver(_, _)
SumOver(S, f) ==
    IF S = {} THEN 0
    ELSE LET x == CHOOSE y \in S : TRUE IN f[x] + SumOver(S \ {x}, f)

\* entry (i, j) of torch.sparse_coo_tensor(indices, values, ...): repeated
\* index pairs add up
CooEntry(indices, values, i, j) ==
    SumOver(DOMAIN indices,
            [k \in DOMAIN indices |-> IF indices[k] = <<i, j>> THEN values[k] ELSE 0])

\* columns of row i that hold an entry
CooColumns(indices, i) == {indices[k][2] : k \in {x \in DOMAIN indices : indices[x][1] = i}}

\* layer(input)[i] for a one-output linear layer
Linear(layer, indices, values, i) ==
    LET cols == CooColumns(indices, i)
    IN SumOver(cols, [j \in cols |-> CooEntry(indices, values, i, j) * Weight(layer, j)])
       + layer.bias

\* lines 124-133 / 173-182: the index lists with the king bucket discarded
FactoriserIndices(indices, base_dim) ==
    [k \in DOMAIN indices |-> <<indices[k][1], FactoriserIndex(indices[k][2], base_dim)>>]

\* lines 135-136 / 187-188 for one perspective:
\* self.ft(board_sparse) + self.fft(v_board_sparse)
FeatureTransformer(ft, fft, indices, values, base_dim, size) ==
    [i \in 0..(size - 1) |->
        Linear(ft, indices, values, i)
        + Linear(fft, FactoriserIndices(indices, base_dim), values, i)]

\* the same perspective with no factoriser: self.ft(board_sparse) alone
MainTableOnly(ft, indices, values, size) ==
    [i \in 0..(size - 1) |-> Linear(ft, indices, values, i)]

\* torch.clamp(torch.cat((stm_ft, nstm_ft), dim=1), 0, 1)
Hidden(stm_ft, nstm_ft) ==
    [i \in DOMAIN stm_ft |-> <<Min(Max(stm_ft[i], 0), 1), Min(Max(nstm_ft[i], 0), 1)>>]

\* torch.sigmoid(self.out(hidden)), in thousandths
Output(out, hidden) ==
    [i \in DOMAIN hidden |->
        Sigmoid(out.weight[1] * hidden[i][1] + out.weight[2] * hidden[i][2] + out.bias, 1)]

\* HalfKPNet.forward / HalfKANet.forward
Forward(net, v, b) ==
    LET stm_ft == FeatureTransformer(net.ft, net.fft, b.stm_indices, b.values,
                                     v.base_dim, b.size)
        nstm_ft == FeatureTransformer(net.ft, net.fft, b.nstm_indices, b.values,
                                      v.base_dim, b.size)
    IN [stm_ft |-> stm_ft, nstm_ft |-> nstm_ft,
        prediction |-> Output(net.out, Hidden(stm_ft, nstm_ft))]

\* the forward pass of the network whose factoriser has been removed
ForwardFolded(net, b) ==
    LET stm_ft == MainTableOnly(net.ft, b.stm_indices, b.values, b.size)
        nstm_ft == MainTableOnly(net.ft, b.nstm_indices, b.values, b.size)
    IN [stm_ft |-> stm_ft, nstm_ft |-> nstm_ft,
        prediction |-> Output(net.out, Hidden(stm_ft, nstm_ft))]

\* folding: main row f += factoriser row (f mod base_dim) for every f in
\* [0, input_dim), main bias += factoriser bias.  Rows outside `touched`
\* are zero in both tables and stay zero.
FoldFactoriser(net, v) ==
    LET buckets == 0..((v.input_dim \div v.base_dim) - 1)
        touched == DOMAIN net.ft.rows
                   \cup {b * v.base_dim + j : b \in buckets, j \in DOMAIN net.fft.rows}
    IN [net EXCEPT
          !.ft = [dim |-> net.ft.dim,
                  rows |-> [f \in touched |->
                              Weight(net.ft, f) + Weight(net.fft, f % v.base_dim)],
                  bias |-> net.ft.bias + net.fft.bias]]

\* features evaluated: one base feature in bucket 0 and in
\* bucket 3, the last feature of bucket 0, the last feature of all
ProbeFeatures(v) ==
    {17, 3 * v.base_dim + 17, v.base_dim - 1, v.input_dim - 1}

FactoriserProbes(v) == {17, v.base_dim - 1}

\* index lists of at most two active features, spread over the two
\* examples of a batch
IndexLists(F) ==
    {<< >>} \cup {<< <<0, f>> >> : f \in F}
            \cup {<< <<0, f>>, <<e, g>> >> : f \in F, g \in F, e \in {0, 1}}

FoldBatches(v) ==
    { [size |-> 2, stm_indices |-> s, nstm_indices |-> n,
       values |-> [k \in DOMAIN s |-> 1]] :
        s \in IndexLists(ProbeFeatures(v)),
        n \in IndexLists({17, 3 * v.base_dim + 17}) }

\* the layers a fold input stands for
Net(x) ==
    [ft |-> [dim |-> x.variant.input_dim, rows |-> x.ft.rows, bias |-> x.ft.bias],
     fft |-> [dim |-> x.variant.base_dim, rows |-> x.fft.rows, bias |-> x.fft.bias],
     out |-> [weight |-> <<1, -1>>, bias |-> 0]]

NoResult == << >>

InitFold ==
    /\ TrainIdle
    /\ blend = Idle
    /\ \E v \in Variants :
         fold \in { [phase |-> "input", variant |-> v, batch |-> b,
                     ft |-> [rows |-> r, bias |-> 1],
                     fft |-> [rows |-> fr, bias |-> fb],
                     both |-> NoResult, folded |-> NoResult] :
                      b \in {x \in FoldBatches(v) : Len(x.stm_indices) = Len(x.nstm_indices)},
                      r \in [ProbeFeatures(v) -> {-1, 2}],
                      fr \in [FactoriserProbes(v) -> {0, 3}],
                      fb \in {0, 5} }

\* evaluate the network as trained: both tables present
EvalFactorised ==
    /\ fold.phase = "input"
    /\ fold.both = NoResult
    /\ fold' = [fold EXCEPT !.both = Forward(Net(fold), fold.variant, fold.batch)]
    /\ UNCHANGED <<trainVars, blend>>

\* fold the factoriser into the main table and evaluate without it
EvalFolded ==
    /\ fold.phase = "input"
    /\ fold.folded = NoResult
    /\ fold' = [fold EXCEPT
                  !.folded = ForwardFolded(FoldFactoriser(Net(fold), fold.variant),
                                           fold.batch)]
    /\ UNCHANGED <<trainVars, blend>>

NextFold ==
    \/ EvalFactorised
    \/ EvalFolded

SpecFold == InitFold /\ [][NextFold]_vars

-----------------------------------------------------------------------------
(* The claims *)

WeightsInRange(m) == \A n \in DOMAIN m : IsWeight(n) => InRange(m[n])

\* C1: after every optimizer step (once model.apply(clipper) has run), and
\* in every checkpoint written afterwards, every entry of every linear
\* layer's weight lies in [-1.98, 1.98], whatever the step produced.
C1_WeightsClipped ==
    /\ pc = "log" => WeightsInRange(model)
    /\ \A e \in DOMAIN checkpoints : WeightsInRange(checkpoints[e])

\* C2: whenever read_batch returns new_epoch = true, the epoch-end actions
\* (epoch increment, accumulator reset, one scheduler step) complete, and
\* the returned batch is then trained on, its loss and size being the first
\* to enter the new epoch's counters.
C2_BoundaryBatchTrained ==
    [][ /\ pc = "epoch_end" =>
             /\ pc' = "step"
             /\ batch' = batch
             /\ epoch' = epoch + 1
             /\ scheduler'.last_epoch = scheduler.last_epoch + 1
             /\ iterations' = 0 /\ fens' = 0 /\ running_loss' = 0
        /\ (pc = "step" /\ new_epoch) =>
             /\ pc' = "log"
             /\ iterations' = 1
             /\ fens' = batch.size
             /\ running_loss' = loss'.num ]_vars

\* C3: train() ends in Done and only there: whenever no further step is
\* possible, train() has returned with the epoch counter at the limit; the
\* counter stays within 0..epochs and no batch is read once it is reached.
C3_ReachesDone ==
    /\ (ENABLED Next) \/ (pc = "done" /\ epoch = args.epochs)
    /\ epoch \in 0..args.epochs
    /\ epoch = args.epochs => ~ENABLED ReadBatch

SaveEpochsOf(n, save_epochs) == {e \in 1..n : e % save_epochs = 0}

\* C4: at any point of a run the checkpoints written are exactly those of
\* the epochs 1..epoch that are multiples of save_epochs, and the export
\* holds the parameters of the most recent checkpoint.
C4_CheckpointKeys ==
    /\ DOMAIN checkpoints = SaveEpochsOf(epoch, args.save_epochs)
    /\ IF DOMAIN checkpoints = {}
       THEN export_json = {}
       ELSE \E last \in DOMAIN checkpoints :
               /\ \A e \in DOMAIN checkpoints : e <= last
               /\ export_json = {checkpoints[last]}

\* C5: with the step-drop schedule the learning rate is the initial rate
\* before lr_drop scheduler steps and 0.1 x the initial rate from then on.
C5_SingleDrop ==
    (args.lr_end = {} /\ args.lr_drop # {}) =>
        lr = IF scheduler.last_epoch < scheduler.step_size
             THEN args.lr
             ELSE args.lr \div 10

\* C6: with the exponential schedule gamma^epochs = lr_end / lr, the number
\* of scheduler steps always equals the epoch counter, and at Done exactly
\* `epochs` steps have been applied and the rate is lr_end.
C6_ExponentialSchedule ==
    args.lr_end # {} =>
        /\ args.lr * Pow(scheduler.gamma.num, args.epochs)
             = (CHOOSE e \in args.lr_end : TRUE) * Pow(scheduler.gamma.den, args.epochs)
        /\ scheduler.last_epoch = epoch
        /\ pc = "done" => /\ scheduler.last_epoch = args.epochs
                          /\ args.lr_end = {lr}

\* C7: evaluating with the factoriser folded into the main table gives the
\* output of evaluating with both tables, for every batch; the factoriser
\* column of bucket * base_dim + base is base, whatever the bucket.
C7_FoldEquivalence ==
    (fold.both # NoResult /\ fold.folded # NoResult) =>
        /\ fold.both = fold.folded
        /\ \A k \in DOMAIN fold.batch.stm_indices :
              LET f == fold.batch.stm_indices[k][2]
                  v == FactoriserIndices(fold.batch.stm_indices, fold.variant.base_dim)[k][2]
              IN \E bucket \in 0..((fold.variant.input_dim \div fold.variant.base_dim) - 1) :
                    /\ v \in 0..(fold.variant.base_dim - 1)
                    /\ f = bucket * fold.variant.base_dim + v

\* C7 witness: HalfKP, feature 3 * 640 + 17 active, a factoriser row 17
\* that is not zero, both evaluations done
C7_Witness ==
    /\ fold.phase = "input"
    /\ fold.variant = HalfKP
    /\ fold.both # NoResult /\ fold.folded # NoResult
    /\ fold.fft.rows[17] = 3
    /\ fold.batch.stm_indices = << <<0, 3 * 640 + 17>>, <<0, 17>> >>
    /\ fold.both.stm_ft[0] # MainTableOnly(Net(fold).ft, fold.batch.stm_indices,
                                           fold.batch.values, 2)[0]

\* C8: target = sigmoid(cp / scale) * (1 - wdl) + label * wdl; wdl = 0
\* gives sigmoid(cp / scale) whatever the label, wdl = 1 gives the label
\* whatever cp.
C8_BlendExact ==
    blend.phase = "done" =>
        /\ blend.target = Sigmoid(blend.cp, blend.scale) * (1000 - blend.wdl)
                          + blend.label * blend.wdl
        /\ blend.wdl = 0 => blend.target = 1000 * Sigmoid(blend.cp, blend.scale)
        /\ blend.wdl = 1000 => blend.target = 1000 * blend.label

\* C8 witness: a pure game-outcome target on a position the score calls won
C8_Witness ==
    /\ blend.phase = "done"
    /\ blend.wdl = 1000
    /\ blend.cp = 800
    /\ blend.label = 0
    /\ blend.target = 0

\* C9: a sample (accumulated loss / iterations since the last report) goes
\* to the log sink exactly when iter_since_log x batch size exceeds
\* 10,000,000 at the end of an iteration, and the report accumulators are
\* then reset; epoch-end actions leave them alone; at the start of an
\* iteration the count accumulated since the last report is within the
\* threshold.
C9_PeriodicReport ==
    /\ [](pc = "loop" => iter_since_log * args.batch_size <= LOG_ITERS)
    /\ [][ /\ pc = "log" =>
                IF iter_since_log * batch.size > LOG_ITERS
                THEN /\ train_log'.count = train_log.count + 1
                     /\ train_log'.last = Ratio(loss_since_log, iter_since_log)
                     /\ iter_since_log' = 0
                     /\ loss_since_log' = 0
                ELSE /\ train_log' = train_log
                     /\ iter_since_log' = iter_since_log
                     /\ loss_since_log' = loss_since_log
           /\ pc # "log" => train_log' = train_log
           /\ pc = "epoch_end" => /\ iter_since_log' = iter_since_log
                                  /\ loss_since_log' = loss_since_log
           /\ pc = "step" => /\ iter_since_log' = iter_since_log + 1
                             /\ loss_since_log' = loss_since_log + loss'.num ]_vars

\* C9 witness: a report has been emitted, and an epoch boundary has been
\* crossed with iterations still accumulated towards the next report
C9_Witness ==
    /\ train_log.count >= 1
    /\ pc = "step"
    /\ new_epoch
    /\ epoch >= 1
    /\ iterations = 0
    /\ iter_since_log >= 1

\* C10: whenever the epoch-end actions run, at least one training iteration
\* has completed since the previous epoch-end, so the epoch mean-loss report
\* never divides by zero and never aborts the run.
C10_EpochEndHasIterations ==
    /\ pc = "epoch_end" => iterations >= 1
    /\ pc # "aborted"

====
